---- MODULE Spec2Model ----
(***************************************************************************)
(* A model of package itl (dhowden/itl): the Library / Track / Playlist    *)
(* data types, ReadFromXML, the Library lookup helpers Track and AllTracks *)
(* and the reflective Track accessors GetString, GetInt and GetBool.       *)
(*                                                                         *)
(* Go strings are modelled as sequences of one-character strings, so that  *)
(* html.UnescapeString can be computed character by character.  Go maps    *)
(* and slices are reference types: their elements live in cells of a heap  *)
(* (mem), and a map or slice value holds cell addresses.                   *)
(***************************************************************************)
EXTENDS Naturals, Sequences, FiniteSets, TLC

VARIABLES
  mem,      \* the heap: a sequence of cells, each holding a Track or Playlist
  rd,       \* rd[p]: the io.Reader handed to call p of ReadFromXML
  buf,      \* buf[p]: the bytes ReadAll has collected for call p (b)
  lib,      \* lib[p]: the named result l of call p
  err,      \* err[p]: the named result err of call p
  pc,       \* pc[p]: where call p of ReadFromXML stands
  decoded,  \* decoded[p]: history, what the reader looked like when
            \*   plist.Unmarshal was invoked by call p (<<>> while it was not)
  touched,  \* touched[p]: history, the caller has mutated call p's Library
  found,    \* the result of the last Library.Track call
  out,      \* the slice returned by the last Library.AllTracks call
  nmut,     \* how many times the caller has mutated the returned slice
  t,        \* the Track the by-name accessors are called on
  recv,     \* history: that Track as it was when the accessor was called
  call,     \* the last accessor call: [fn, name]
  ret       \* what that call did: a value, or a panic

vars == <<mem, rd, buf, lib, err, pc, decoded, touched, found, out, nmut,
          t, recv, call, ret>>

libVars == <<mem, rd, buf, lib, err, pc, decoded, touched, found, out, nmut>>

accVars == <<t, recv, call, ret>>

(***************************************************************************)
(* The struct declarations.  One row per field, in declaration order:      *)
(* <<field identifier, document key (the plist tag, or the identifier when *)
(* the field has no tag), reflect.Kind of the field's type>>.              *)
(***************************************************************************)
LibraryFields ==
  << <<"MajorVersion", "Major Version", "int">>,
     <<"MinorVersion", "Minor Version", "int">>,
     <<"Date", "Date", "struct">>,
     <<"ApplicationVersion", "Application Version", "string">>,
     <<"Features", "Features", "int">>,
     <<"ShowContentRatings", "Show Content Ratings", "bool">>,
     <<"MusicFolder", "Music Folder", "string">>,
     <<"LibraryPersistentID", "Library Persistent ID", "string">>,
     <<"Tracks", "Tracks", "map">>,
     <<"Playlists", "Playlists", "slice">> >>

TrackFields ==
  << <<"TrackID", "Track ID", "int">>,
     <<"Name", "Name", "string">>,
     <<"Artist", "Artist", "string">>,
     <<"Composer", "Composer", "string">>,
     <<"Year", "Year", "int">>,
     <<"Genre", "Genre", "string">>,
     <<"Kind", "Kind", "string">>,
     <<"Size", "Size", "int">>,
     <<"BPM", "BPM", "int">>,
     <<"TrackNumber", "Track Number", "int">>,
     <<"TrackCount", "Track Count", "int">>,
     <<"DiscNumber", "Disc Number", "int">>,
     <<"DiscCount", "Disc Count", "int">>,
     <<"PartOfGaplessAlbum", "Part Of Gapless Album", "bool">>,
     <<"ContentRating", "Content Rating", "string">>,
     <<"Rating", "Rating", "int">>,
     <<"RatingComputed", "Rating Computed", "bool">>,
     <<"Disabled", "Disabled", "bool">>,
     <<"Album", "Album", "string">>,
     <<"AlbumArtist", "Album Artist", "string">>,
     <<"AlbumRating", "Album Rating", "int">>,
     <<"AlbumRatingComputed", "Album Rating Computed", "bool">>,
     <<"SortName", "Sort Name", "string">>,
     <<"SortArtist", "Sort Artist", "string">>,
     <<"SortAlbumArtist", "Sort Album Artist", "string">>,
     <<"SortAlbum", "Sort Album", "string">>,
     <<"SortComposer", "Sort Composer", "string">>,
     <<"Clean", "Clean", "bool">>,
     <<"Series", "Series", "string">>,
     <<"TotalTime", "Total Time", "int">>,
     <<"DateModified", "Date Modified", "struct">>,
     <<"DateAdded", "Date Added", "struct">>,
     <<"BitRate", "Bit Rate", "int">>,
     <<"SampleRate", "Sample Rate", "int">>,
     <<"VolumeAdjustment", "Volume Adjustment", "int">>,
     <<"Comments", "Comments", "string">>,
     <<"PlayCount", "Play Count", "int">>,
     <<"PlayDate", "Play Date", "int">>,
     <<"PlayDateUTC", "Play Date UTC", "struct">>,
     <<"Protected", "Protected", "bool">>,
     <<"Purchased", "Purchased", "bool">>,
     <<"SkipCount", "Skip Count", "int">>,
     <<"SkipDate", "Skip Date", "struct">>,
     <<"ArtworkCount", "Artwork Count", "int">>,
     <<"Episode", "Episode", "string">>,
     <<"EpisodeOrder", "Episode Order", "int">>,
     <<"TVShow", "TV Show", "bool">>,
     <<"Season", "Season", "int">>,
     <<"Podcast", "Podcast", "bool">>,
     <<"ITunesU", "iTunesU", "bool">>,
     <<"Unplayed", "Unplayed", "bool">>,
     <<"PersistentID", "Persistent ID", "string">>,
     <<"TrackType", "Track Type", "string">>,
     <<"Location", "Location", "string">>,
     <<"FileType", "File Type", "int">>,
     <<"Movie", "Movie", "bool">>,
     <<"MusicVideo", "Music Video", "bool">>,
     <<"HD", "HD", "bool">>,
     <<"HasVideo", "Has Video", "bool">>,
     <<"VideoHeight", "Video Height", "int">>,
     <<"VideoWidth", "Video Width", "int">>,
     <<"Grouping", "Grouping", "string">>,
     <<"Compilation", "Compilation", "bool">>,
     <<"ReleaseDate", "Release Date", "struct">>,
     <<"FileFolderCount", "File Folder Count", "int">>,
     <<"LibraryFolderCount", "Library Folder Count", "int">> >>

PlaylistFields ==
  << <<"Name", "Name", "string">>,
     <<"Master", "Master", "bool">>,
     <<"PlaylistID", "Playlist ID", "int">>,
     <<"PlaylistPersistentID", "Playlist Persistent ID", "string">>,
     <<"Visible", "Visible", "bool">>,
     <<"AllItems", "All Items", "bool">>,
     <<"PlaylistItems", "Playlist Items", "slice">> >>

PlaylistItemFields ==
  << <<"TrackID", "Track ID", "int">> >>

(***************************************************************************)
(* Bounds of the model.                                                    *)
(***************************************************************************)
\* How many pieces a stored text value is put together from.
MaxPieces == 3

\* How many track blocks the Tracks dictionary of a document holds.
MaxTracks == 2

\* How many times the caller mutates the slice AllTracks returned.
MaxMut == 2

(***************************************************************************)
(* Helpers on sequences.                                                   *)
(***************************************************************************)
Range(s) == { s[i] : i \in 1..Len(s) }

Take(s, n) == SubSeq(s, 1, n)

\* The sequences of at most n elements of S.
RECURSIVE SeqsUpTo(_, _)
SeqsUpTo(S, n) ==
  IF n = 0 THEN { <<>> }
  ELSE LET shorter == SeqsUpTo(S, n - 1)
       IN  shorter \cup { Append(s, x) : s \in shorter, x \in S }

(***************************************************************************)
(* Field tables as functions, and the zero value of each struct type.      *)
(***************************************************************************)
FieldsOf(table) == { table[i][1] : i \in 1..Len(table) }

Row(table, name) == table[CHOOSE i \in 1..Len(table) : table[i][1] = name]

\* reflect.Type.FieldByName on Track: the field's row, found by identifier.
TrackFieldNames == FieldsOf(TrackFields)

TrackKind == [ f \in TrackFieldNames |-> Row(TrackFields, f)[3] ]

\* The zero time.Time.
ZeroTime == [ sec |-> 0 ]

\* Go's zero value of a field of the given kind.  A nil map is address 0; a
\* nil slice has no array (address 0) and length 0.
NilSlice == [ arr |-> 0, len |-> 0 ]

ZeroOf(kind) ==
  CASE kind = "int"    -> 0
    [] kind = "string" -> <<>>
    [] kind = "bool"   -> FALSE
    [] kind = "struct" -> ZeroTime
    [] kind = "map"    -> 0
    [] kind = "slice"  -> NilSlice

ZeroStruct(table) ==
  [ f \in FieldsOf(table) |-> ZeroOf(Row(table, f)[3]) ]

ZeroTrack == ZeroStruct(TrackFields)

ZeroLibrary == ZeroStruct(LibraryFields)

(***************************************************************************)
(* html.UnescapeString, as GetString calls it.  The entity table is cut to *)
(* the entities that can occur in the text values of the model (amp and lt, *)
(* each with and without its semicolon); the text values hold no '#', so    *)
(* numeric character references are not modelled.                          *)
(***************************************************************************)
AlphaNum == { "a", "m", "p", "l", "t", "R", "o" }

\* The entity table: the character an entity name stands for, "" for none.
Entity(name) ==
  CASE name = <<"a", "m", "p", ";">> -> "&"
    [] name = <<"a", "m", "p">>      -> "&"
    [] name = <<"l", "t", ";">>      -> "<"
    [] name = <<"l", "t">>           -> "<"
    [] OTHER                         -> ""

\* The scan of unescapeEntity: from s[i] on, consume letters and digits and
\* one closing semicolon.  The position after the last consumed character.
RECURSIVE ScanName(_, _)
ScanName(s, i) ==
  IF i > Len(s) THEN i
  ELSE IF s[i] \in AlphaNum THEN ScanName(s, i + 1)
  ELSE IF s[i] = ";" THEN i + 1
  ELSE i

\* The longest prefix of name, of length j down to 2, that is an entity
\* (names without a semicolon match this way); 0 for none.
RECURSIVE PrefixMatch(_, _)
PrefixMatch(name, j) ==
  IF j <= 1 THEN 0
  ELSE IF Entity(Take(name, j)) # "" THEN j
  ELSE PrefixMatch(name, j - 1)

Min(a, b) == IF a < b THEN a ELSE b

\* unescapeEntity at s[src] = "&": the characters written and the position
\* reading goes on from.
UnescapeEntity(s, src) ==
  IF src = Len(s)
  THEN [ wrote |-> <<"&">>, next |-> src + 1 ]
  ELSE
    LET i     == ScanName(s, src + 1)
        name  == SubSeq(s, src + 1, i - 1)
        j     == PrefixMatch(name, Min(Len(name) - 1, 6))
    IN  IF name # <<>> /\ Entity(name) # ""
        THEN [ wrote |-> << Entity(name) >>, next |-> i ]
        ELSE IF name # <<>> /\ j > 0
        THEN [ wrote |-> << Entity(Take(name, j)) >>, next |-> src + j + 1 ]
        ELSE [ wrote |-> SubSeq(s, src, i - 1), next |-> i ]

RECURSIVE UnescapeFrom(_, _)
UnescapeFrom(s, i) ==
  IF i > Len(s) THEN <<>>
  ELSE IF s[i] = "&"
  THEN LET r == UnescapeEntity(s, i)
       IN  r.wrote \o UnescapeFrom(s, r.next)
  ELSE << s[i] >> \o UnescapeFrom(s, i + 1)

UnescapeString(s) ==
  IF "&" \notin Range(s) THEN s ELSE UnescapeFrom(s, 1)

(***************************************************************************)
(* The by-name accessors of Track.  Each is a function of the receiver (a  *)
(* copy of the Track: the receiver is passed by value) and the name; it    *)
(* either panics with a message or returns a value.                        *)
(***************************************************************************)
Panic(msg) == [ panicked |-> TRUE, msg |-> msg ]

Return(v) == [ panicked |-> FALSE, val |-> v ]

\* A mutant of GetString: the stored text is returned as it is.
GetStringNoUnescape(tr, name) ==
  IF name \notin TrackFieldNames THEN Panic("invalid field")
  ELSE IF TrackKind[name] # "string" THEN Panic("field is not a string")
  ELSE Return(tr[name])

GetString(tr, name) ==
  IF name \notin TrackFieldNames THEN Panic("invalid field")
  ELSE IF TrackKind[name] # "string" THEN Panic("field is not a string")
  ELSE Return(UnescapeString(tr[name]))

\* A mutant of GetInt: the kind of the field is not tested.
GetIntNoKindCheck(tr, name) ==
  IF name \notin TrackFieldNames THEN Panic("invalid field")
  ELSE Return(tr[name])

GetInt(tr, name) ==
  IF name \notin TrackFieldNames THEN Panic("invalid field")
  ELSE IF TrackKind[name] # "int" THEN Panic("field is not an int")
  ELSE Return(tr[name])

GetBool(tr, name) ==
  IF name \notin TrackFieldNames THEN Panic("invalid field")
  ELSE IF TrackKind[name] # "bool" THEN Panic("field is not a bool")
  ELSE Return(tr[name])

(***************************************************************************)
(* Property-list documents.  The bytes of a document are modelled as its   *)
(* sequence of top-level tokens: one token per entry of the top-level      *)
(* dictionary, then the token that closes the document.  A truncated       *)
(* document lacks the closing token.  A plist value is a tagged record.    *)
(***************************************************************************)
PInt(n) == [ type |-> "integer", val |-> n ]

PStr(s) == [ type |-> "string", val |-> s ]

PDict(entries) == [ type |-> "dict", val |-> entries ]

PArray(items) == [ type |-> "array", val |-> items ]

PEnd == [ type |-> "end", val |-> 0 ]

Entry(k, v) == [ key |-> k, val |-> v ]

\* The keys of the Tracks dictionary, the track identifiers and the shapes
\* of the track blocks the documents of the model are built from.
Keys == { <<"1">>, <<"2">> }

\* 0 stands for a block that gives no "Track ID".
Ids == { 0, 1, 2 }

Blocks == [ key : Keys, id : Ids, nameOk : BOOLEAN ]

\* A track block: the "Track ID" (when it gives one) and the "Name" of the
\* track.  A block whose nameOk is FALSE gives "Name" an integer: a type
\* mismatch.
MkBlock(b) ==
  Entry(b.key,
        PDict((IF b.id = 0 THEN <<>> ELSE << Entry("Track ID", PInt(b.id)) >>)
              \o << Entry("Name", IF b.nameOk THEN PStr(<<"A">>) ELSE PInt(0)) >>))

MkPlaylist ==
  PDict(<< Entry("Name", PStr(<<"P">>)),
           Entry("Playlist ID", PInt(1)),
           Entry("Playlist Items",
                 PArray(<< PDict(<< Entry("Track ID", PInt(1)) >>) >>)) >>)

DocShapes ==
  { d \in [ ver : { "ok", "bad" }, hasTracks : BOOLEAN,
            blocks : SeqsUpTo(Blocks, MaxTracks),
            pl : { "absent", "empty", "one" }, closed : BOOLEAN ] :
      ~d.hasTracks => d.blocks = <<>> }

MkDoc(d) ==
  << Entry("Major Version",
           IF d.ver = "ok" THEN PInt(1) ELSE PStr(<<"x">>)) >>
  \o (IF d.hasTracks
      THEN << Entry("Tracks",
                    PDict([ i \in 1..Len(d.blocks) |-> MkBlock(d.blocks[i]) ])) >>
      ELSE <<>>)
  \o (CASE d.pl = "absent" -> <<>>
        [] d.pl = "empty"  -> << Entry("Playlists", PArray(<<>>)) >>
        [] d.pl = "one"    -> << Entry("Playlists", PArray(<< MkPlaylist >>)) >>)
  \o (IF d.closed THEN << Entry("", PEnd) >> ELSE <<>>)

\* No type mismatch and not truncated.
WellFormed(d) ==
  /\ d.ver = "ok"
  /\ d.closed
  /\ \A i \in 1..Len(d.blocks) : d.blocks[i].nameOk

(***************************************************************************)
(* plist.Unmarshal(b, &l).  The decoder is an external package; what is    *)
(* modelled is how it is used: it is handed the bytes and a pointer to the *)
(* zero-valued named result l, walks the document in order and stores each *)
(* value it decodes through that pointer (allocating the map and the       *)
(* slices it fills), and stops with an error at the first value whose type *)
(* does not match the field, or when the document ends early.              *)
(***************************************************************************)
Result(v, e, m) == [ val |-> v, err |-> e, mem |-> m ]

EmptyMap == [ k \in {} |-> ZeroTrack ]

MapPut(m, k, v) == [ x \in DOMAIN m \cup { k } |-> IF x = k THEN v ELSE m[x] ]

\* The row of the field a document key is decoded into: the field whose tag
\* (or identifier, when it has no tag) is the key; <<>> when there is none.
RowByKey(table, key) ==
  LET I == { i \in 1..Len(table) : table[i][2] = key }
  IN  IF I = {} THEN <<>> ELSE table[CHOOSE i \in I : TRUE]

\* The element type of a slice field.
ElemTable(field) ==
  IF field = "Playlists" THEN PlaylistFields ELSE PlaylistItemFields

\* strconv.Itoa for naturals: the decimal digits of n.
RECURSIVE Itoa(_)
Itoa(n) ==
  LET d == << "0", "1", "2", "3", "4", "5", "6", "7", "8", "9" >>[(n % 10) + 1]
  IN  IF n < 10 THEN << d >> ELSE Append(Itoa(n \div 10), d)

RECURSIVE DecodeValue(_, _, _, _)
RECURSIVE DecodeEntries(_, _, _, _, _)
RECURSIVE DecodeMap(_, _, _, _)
RECURSIVE DecodeSlice(_, _, _, _, _)

\* The entries of a dictionary into the struct cur, from entry i on.
DecodeEntries(table, cur, entries, i, m) ==
  IF i > Len(entries) THEN Result(cur, FALSE, m)
  ELSE
    LET e   == entries[i]
        row == RowByKey(table, e.key)
    IN  IF row = <<>> THEN DecodeEntries(table, cur, entries, i + 1, m)
        ELSE
          LET r   == DecodeValue(row, e.val, cur[row[1]], m)
              new == [ cur EXCEPT ![row[1]] = r.val ]
          IN  IF r.err THEN Result(new, TRUE, r.mem)
              ELSE DecodeEntries(table, new, entries, i + 1, r.mem)

\* A mutant of DecodeMap: the track is stored under its own TrackID.
DecodeMapByTrackID(a, entries, i, m) ==
  IF i > Len(entries) THEN Result(a, FALSE, m)
  ELSE
    LET e == entries[i]
        r == IF e.val.type = "dict"
             THEN DecodeEntries(TrackFields, ZeroTrack, e.val.val, 1, m)
             ELSE Result(ZeroTrack, TRUE, m)
    IN  IF r.err THEN Result(a, TRUE, r.mem)
        ELSE DecodeMap(a, entries, i + 1,
                       [ r.mem EXCEPT ![a] = MapPut(@, Itoa(r.val.TrackID), r.val) ])

\* The entries of the Tracks dictionary into the map at address a: each
\* block is decoded into a new Track, which is stored under the entry's key.
DecodeMap(a, entries, i, m) ==
  IF i > Len(entries) THEN Result(a, FALSE, m)
  ELSE
    LET e == entries[i]
        r == IF e.val.type = "dict"
             THEN DecodeEntries(TrackFields, ZeroTrack, e.val.val, 1, m)
             ELSE Result(ZeroTrack, TRUE, m)
    IN  IF r.err THEN Result(a, TRUE, r.mem)
        ELSE DecodeMap(a, entries, i + 1,
                       [ r.mem EXCEPT ![a] = MapPut(@, e.key, r.val) ])

\* The items of an array, appended to the array at address a.
DecodeSlice(table, a, items, i, m) ==
  IF i > Len(items) THEN Result([ arr |-> a, len |-> Len(m[a]) ], FALSE, m)
  ELSE
    LET r == IF items[i].type = "dict"
             THEN DecodeEntries(table, ZeroStruct(table), items[i].val, 1, m)
             ELSE Result(ZeroStruct(table), TRUE, m)
    IN  IF r.err THEN Result([ arr |-> a, len |-> Len(m[a]) ], TRUE, r.mem)
        ELSE DecodeSlice(table, a, items, i + 1,
                         [ r.mem EXCEPT ![a] = Append(@, r.val) ])

\* One plist value into a field of the given row, whose value is cur.
DecodeValue(row, pv, cur, m) ==
  CASE row[3] = "int" ->
         IF pv.type = "integer" THEN Result(pv.val, FALSE, m)
         ELSE Result(cur, TRUE, m)
    [] row[3] = "string" ->
         IF pv.type = "string" THEN Result(pv.val, FALSE, m)
         ELSE Result(cur, TRUE, m)
    [] row[3] = "bool" ->
         IF pv.type \in { "true", "false" } THEN Result(pv.type = "true", FALSE, m)
         ELSE Result(cur, TRUE, m)
    [] row[3] = "struct" ->
         IF pv.type = "date" THEN Result([ sec |-> pv.val ], FALSE, m)
         ELSE Result(cur, TRUE, m)
    [] row[3] = "map" ->
         IF pv.type # "dict" THEN Result(cur, TRUE, m)
         ELSE IF cur = 0
              THEN DecodeMap(Len(m) + 1, pv.val, 1, Append(m, EmptyMap))
              ELSE DecodeMap(cur, pv.val, 1, m)
    [] row[3] = "slice" ->
         IF pv.type # "array" THEN Result(cur, TRUE, m)
         ELSE DecodeSlice(ElemTable(row[1]), Len(m) + 1, pv.val, 1,
                          Append(m, <<>>))

IsEnd(tok) == tok.val.type = "end"

\* The tokens before the closing token (all of them when there is none).
RECURSIVE Body(_)
Body(b) ==
  IF b = <<>> \/ IsEnd(Head(b)) THEN <<>> ELSE << Head(b) >> \o Body(Tail(b))

Closed(b) == \E i \in 1..Len(b) : IsEnd(b[i])

Unmarshal(b, l, m) ==
  LET r == DecodeEntries(LibraryFields, l, Body(b), 1, m)
  IN  IF r.err THEN r
      ELSE IF ~Closed(b) THEN Result(r.val, TRUE, r.mem)
      ELSE r

(***************************************************************************)
(* The io.Reader and ioutil.ReadAll.  A reader holds the tokens of its     *)
(* stream, how many it has delivered, and the position at which reading    *)
(* fails (beyond the end: never).  One Read delivers one token.            *)
(***************************************************************************)
Reader(data, failAt) == [ data |-> data, pos |-> 0, failAt |-> failAt ]

NoReader == Reader(<<>>, 1)

\* One call of Read.
Read(r) ==
  IF r.pos = r.failAt THEN [ r |-> r, got |-> <<>>, res |-> "error" ]
  ELSE IF r.pos = Len(r.data) THEN [ r |-> r, got |-> <<>>, res |-> "EOF" ]
  ELSE [ r   |-> [ r EXCEPT !.pos = @ + 1 ],
         got |-> << r.data[r.pos + 1] >>,
         res |-> "ok" ]

\* ReadAll: Read until EOF (not an error) or an error.
RECURSIVE ReadAll(_, _)
ReadAll(r, b) ==
  LET x == Read(r)
  IN  CASE x.res = "ok"    -> ReadAll(x.r, b \o x.got)
        [] x.res = "EOF"   -> [ r |-> x.r, b |-> b, err |-> "nil" ]
        [] x.res = "error" -> [ r |-> x.r, b |-> b, err |-> "read" ]

(***************************************************************************)
(* The Library lookup helpers.                                             *)
(***************************************************************************)
\* The entries of l.Tracks: the map object l.Tracks points to (a nil map has
\* no entries).
TracksOf(l, m) == IF l.Tracks = 0 THEN EmptyMap ELSE m[l.Tracks]

\* A mutant of Track: the test of ok is inverted.
TrackInvertedOk(l, m, id) ==
  IF id \in DOMAIN TracksOf(l, m)
  THEN [ id |-> id, t |-> TracksOf(l, m)[id], err |-> "no track with id" ]
  ELSE [ id |-> id, t |-> ZeroTrack, err |-> "nil" ]

\* A mutant of Track: the lookup's ok result is ignored, err stays nil.
TrackIgnoringOk(l, m, id) ==
  IF id \in DOMAIN TracksOf(l, m)
  THEN [ id |-> id, t |-> TracksOf(l, m)[id], err |-> "nil" ]
  ELSE [ id |-> id, t |-> ZeroTrack, err |-> "nil" ]

\* Library.Track: t, ok := l.Tracks[id]; a failed lookup leaves t the zero
\* Track and sets err.
Track(l, m, id) ==
  IF id \in DOMAIN TracksOf(l, m)
  THEN [ id |-> id, t |-> TracksOf(l, m)[id], err |-> "nil" ]
  ELSE [ id |-> id, t |-> ZeroTrack, err |-> "no track with id" ]

\* The orders in which range may visit the keys of a map.
Orders(S) ==
  { s \in [ 1..Cardinality(S) -> S ] :
      \A i, j \in 1..Cardinality(S) : i # j => s[i] # s[j] }

\* A mutant of AllTracks: a track equal to one already collected is skipped.
RECURSIVE Dedup(_)
Dedup(s) ==
  IF s = <<>> THEN <<>>
  ELSE LET rest == Dedup(Take(s, Len(s) - 1))
       IN  IF s[Len(s)] \in Range(rest) THEN rest ELSE Append(rest, s[Len(s)])

AllTracksDistinct(l, m, order) ==
  Dedup([ i \in 1..Len(order) |-> TracksOf(l, m)[order[i]] ])

\* Library.AllTracks: a new array of capacity len(l.Tracks), filled by
\* appending a copy of every value of the map in range order.
AllTracks(l, m, order) ==
  [ i \in 1..Len(order) |-> TracksOf(l, m)[order[i]] ]

(***************************************************************************)
(* The state machine.  Procs are the calls of ReadFromXML.                 *)
(***************************************************************************)
Procs == { 1, 2 }

NoFound == [ id |-> <<>>, t |-> ZeroTrack, err |-> "none" ]

NoSlice == [ arr |-> 0, len |-> 0, fresh |-> FALSE ]

NoCall == [ fn |-> "none", name |-> "" ]

\* The Track a caller writes into the slice it got from AllTracks.
MutTrack == [ ZeroTrack EXCEPT !.Name = <<"Z">>, !.TrackID = 9 ]

LibInit ==
  /\ mem = <<>>
  /\ rd = [ p \in Procs |-> NoReader ]
  /\ buf = [ p \in Procs |-> <<>> ]
  /\ lib = [ p \in Procs |-> ZeroLibrary ]
  /\ err = [ p \in Procs |-> "nil" ]
  /\ pc = [ p \in Procs |-> "idle" ]
  /\ decoded = [ p \in Procs |-> <<>> ]
  /\ touched = [ p \in Procs |-> FALSE ]
  /\ found = NoFound
  /\ out = NoSlice
  /\ nmut = 0

AccIdle ==
  /\ t = ZeroTrack
  /\ recv = ZeroTrack
  /\ call = NoCall
  /\ ret = Panic("")

\* plist.Unmarshal(b, &l) and the return that follows it.  r is the reader
\* as ReadAll left it and rerr the error ReadAll returned.
DecodeAndReturn(p, r, b, rerr, l) ==
  LET u == Unmarshal(b, l, mem)
  IN  /\ lib' = [ lib EXCEPT ![p] = u.val ]
      /\ err' = [ err EXCEPT ![p] = IF u.err THEN "decode" ELSE "nil" ]
      /\ mem' = u.mem
      /\ decoded' = [ decoded EXCEPT ![p] = << [ r |-> r, readErr |-> rerr ] >> ]

\* The tail of ReadFromXML, after ReadAll returned b and rerr with the reader
\* left as r: return on a read error, else Unmarshal into l and return.
Finish(p, r, b, rerr, l) ==
  IF rerr # "nil"
  THEN /\ lib' = [ lib EXCEPT ![p] = l ]
       /\ err' = [ err EXCEPT ![p] = rerr ]
       /\ UNCHANGED << mem, decoded >>
  ELSE DecodeAndReturn(p, r, b, rerr, l)

\* ReadFromXML as one step, on the reader r: b, err := ioutil.ReadAll(r),
\* then the tail, with the named result l still the zero Library.
ReadFromXMLOn(p, r) ==
  LET ra == ReadAll(r, <<>>)
  IN  /\ pc[p] = "idle"
      /\ rd' = [ rd EXCEPT ![p] = ra.r ]
      /\ buf' = [ buf EXCEPT ![p] = ra.b ]
      /\ Finish(p, ra.r, ra.b, ra.err, ZeroLibrary)
      /\ pc' = [ pc EXCEPT ![p] = "done" ]
      /\ UNCHANGED << touched, found, out, nmut, accVars >>

\* ReadFromXML on a reader over any document of the model, that fails at any
\* position or never.
ReadFromXML(p) ==
  /\ pc[p] = "idle"
  /\ \E d \in DocShapes :
       \E f \in 0..(Len(MkDoc(d)) + 1) : ReadFromXMLOn(p, Reader(MkDoc(d), f))

\* ReadFromXML on a reader that never fails, over a well-formed document
\* without playlists whose track blocks all give a "Track ID".
ReadFromXMLWellFormed(p) ==
  /\ pc[p] = "idle"
  /\ \E d \in { x \in DocShapes :
                  /\ WellFormed(x) /\ x.pl = "absent"
                  /\ \A i \in 1..Len(x.blocks) : x.blocks[i].id # 0 } :
       ReadFromXMLOn(p, Reader(MkDoc(d), Len(MkDoc(d)) + 1))

\* The caller looks a track up in the Library a successful call returned.
TrackCall(p) ==
  /\ pc[p] = "done" /\ err[p] = "nil"
  /\ \E id \in Keys \cup { <<"3">> } : found' = Track(lib[p], mem, id)
  /\ UNCHANGED << mem, rd, buf, lib, err, pc, decoded, touched, out, nmut, accVars >>

\* The heap without the array of the slice AllTracks returned last: once the
\* caller gets a new slice the old array is garbage.
Owned == IF out.arr = 0 THEN mem ELSE Take(mem, out.arr - 1)

\* A mutant of AllTracksCall: the slice built by the first call is kept and
\* handed out again by the later calls.
AllTracksCallCached(p) ==
  /\ pc[p] = "done" /\ err[p] = "nil"
  /\ IF out.arr # 0
     THEN /\ out' = [ out EXCEPT !.fresh = TRUE ]
          /\ mem' = mem
     ELSE \E order \in Orders(DOMAIN TracksOf(lib[p], mem)) :
            /\ mem' = Append(Owned, AllTracks(lib[p], mem, order))
            /\ out' = [ arr |-> Len(Owned) + 1, len |-> Len(mem'[Len(Owned) + 1]),
                        fresh |-> TRUE ]
  /\ UNCHANGED << rd, buf, lib, err, pc, decoded, touched, found, nmut, accVars >>

\* The caller asks for all tracks.
AllTracksCall(p) ==
  /\ pc[p] = "done" /\ err[p] = "nil"
  /\ \E order \in Orders(DOMAIN TracksOf(lib[p], mem)) :
       /\ mem' = Append(Owned, AllTracks(lib[p], mem, order))
       /\ out' = [ arr |-> Len(Owned) + 1, len |-> Len(mem'[Len(Owned) + 1]),
                   fresh |-> TRUE ]
  /\ UNCHANGED << rd, buf, lib, err, pc, decoded, touched, found, nmut, accVars >>

\* The caller mutates the slice it got: out[i] = MutTrack,
Overwrite ==
  /\ out.arr # 0 /\ nmut < MaxMut
  /\ \E i \in 1..out.len : mem' = [ mem EXCEPT ![out.arr][i] = MutTrack ]
  /\ out' = [ out EXCEPT !.fresh = FALSE ]
  /\ nmut' = nmut + 1
  /\ UNCHANGED << rd, buf, lib, err, pc, decoded, touched, found, accVars >>

\* out[i].Name = "Z",
SetField ==
  /\ out.arr # 0 /\ nmut < MaxMut
  /\ \E i \in 1..out.len : mem' = [ mem EXCEPT ![out.arr][i].Name = <<"Z">> ]
  /\ out' = [ out EXCEPT !.fresh = FALSE ]
  /\ nmut' = nmut + 1
  /\ UNCHANGED << rd, buf, lib, err, pc, decoded, touched, found, accVars >>

\* out = append(out, MutTrack): in place when the array has room, else into
\* a new array the elements are copied to,
AppendOut ==
  /\ out.arr # 0 /\ nmut < MaxMut
  /\ IF out.len < Len(mem[out.arr])
     THEN mem' = [ mem EXCEPT ![out.arr][out.len + 1] = MutTrack ]
     ELSE mem' = Append(Owned, Append(Take(mem[out.arr], out.len), MutTrack))
  /\ out' = [ out EXCEPT !.len = @ + 1, !.fresh = FALSE ]
  /\ nmut' = nmut + 1
  /\ UNCHANGED << rd, buf, lib, err, pc, decoded, touched, found, accVars >>

\* out = out[:n].
Truncate ==
  /\ out.arr # 0 /\ nmut < MaxMut
  /\ \E n \in 0..(out.len - 1) : out' = [ out EXCEPT !.len = n, !.fresh = FALSE ]
  /\ nmut' = nmut + 1
  /\ UNCHANGED << mem, rd, buf, lib, err, pc, decoded, touched, found, accVars >>

Init == LibInit /\ AccIdle

\* One call of ReadFromXML on any input, and lookups in what it returned.
Next ==
  \/ ReadFromXML(1)
  \/ TrackCall(1)
  \/ AllTracksCall(1)

Spec == Init /\ [][Next]_vars

\* One call of ReadFromXML that succeeds, lookups in what it returned, and a
\* caller that mutates the slices AllTracks hands it.
NextMut ==
  \/ ReadFromXMLWellFormed(1)
  \/ TrackCall(1)
  \/ AllTracksCall(1)
  \/ Overwrite
  \/ SetField
  \/ AppendOut
  \/ Truncate

SpecMut == Init /\ [][NextMut]_vars

(***************************************************************************)
(* What the claims are stated in.                                          *)
(***************************************************************************)
Done(p) == pc[p] = "done"

Decoded(p) == pc[p] = "done" /\ err[p] = "nil"

\* The blocks of the Tracks dictionary of a document, in document order.
TrackBlocks(data) ==
  LET I == { i \in 1..Len(data) : data[i].key = "Tracks" }
  IN  IF I = {} THEN <<>> ELSE data[CHOOSE i \in I : TRUE].val.val

\* The "Track ID" a track block gives, 0 when it gives none.
BlockID(e) ==
  LET es == e.val.val
      I  == { i \in 1..Len(es) : es[i].key = "Track ID" }
  IN  IF I = {} THEN 0 ELSE es[CHOOSE i \in I : TRUE].val.val

\* The playlists of a Library, with the items of each.
PlaylistsOf(l, m) ==
  IF l.Playlists.arr = 0 THEN <<>>
  ELSE [ i \in 1..l.Playlists.len |->
           LET pl == m[l.Playlists.arr][i]
           IN  [ pl EXCEPT !.PlaylistItems =
                   IF @.arr = 0 THEN <<>> ELSE Take(m[@.arr], @.len) ] ]

\* A Library by value: its scalar fields, the entries of its Tracks map and
\* its playlists.
View(l, m) ==
  [ l EXCEPT !.Tracks = TracksOf(l, m), !.Playlists = PlaylistsOf(l, m) ]

\* What ReadFromXML returns for the reader of call p when it runs alone, on
\* an empty heap.
Alone(p) ==
  LET ra == ReadAll([ rd[p] EXCEPT !.pos = 0 ], <<>>)
      u  == Unmarshal(ra.b, ZeroLibrary, <<>>)
  IN  IF ra.err # "nil"
      THEN [ view |-> View(ZeroLibrary, <<>>), err |-> ra.err ]
      ELSE [ view |-> View(u.val, u.mem),
             err  |-> IF u.err THEN "decode" ELSE "nil" ]

\* The elements of the slice AllTracks returned.
OutElems == IF out.arr = 0 THEN <<>> ELSE Take(mem[out.arr], out.len)

\* How often x occurs in the sequence s / as a value of the map f.
CountIn(s, x) == Cardinality({ i \in 1..Len(s) : s[i] = x })

HeldBy(f, x) == Cardinality({ k \in DOMAIN f : f[k] = x })

SameBag(s, f) ==
  /\ Len(s) = Cardinality(DOMAIN f)
  /\ \A x \in Range(s) \cup { f[k] : k \in DOMAIN f } : CountIn(s, x) = HeldBy(f, x)

(***************************************************************************)
(* C1.  Whenever ReadFromXML returns a non-nil error, the Library returned *)
(* with it is the zero Library: nothing taken from the document is in it.  *)
(***************************************************************************)
C1_ErrorMeansZeroLibrary ==
  \A p \in Procs :
    (Done(p) /\ err[p] # "nil") =>
      /\ lib[p] = ZeroLibrary
      /\ View(lib[p], mem) = View(ZeroLibrary, <<>>)

(***************************************************************************)
(* C2, as claimed.  Track(k) on a decoded Library returns, with no error,  *)
(* the Track whose TrackID equals k when k is a key of Tracks, and a       *)
(* NotFound error when it is not.                                          *)
(***************************************************************************)
C2_TrackHasTrackIDk ==
  (Decoded(1) /\ found.err # "none") =>
    IF found.id \in DOMAIN TracksOf(lib[1], mem)
    THEN found.err = "nil" /\ Itoa(found.t.TrackID) = found.id
    ELSE found.err = "no track with id"

(***************************************************************************)
(* C2, amended.  Track(k) on a decoded Library returns, with no error, the *)
(* Track stored under key k when k is a key of Tracks, and a NotFound      *)
(* error (with the zero Track) when it is not.                             *)
(***************************************************************************)
C2_TrackIsEntryUnderk ==
  (Decoded(1) /\ found.err # "none") =>
    IF found.id \in DOMAIN TracksOf(lib[1], mem)
    THEN found.err = "nil" /\ found.t = TracksOf(lib[1], mem)[found.id]
    ELSE found.err = "no track with id" /\ found.t = ZeroTrack

\* Both cases of C2 happen: a lookup that found a track whose TrackID is not
\* the key, in a Library where another lookup would fail.
C2_Witness ==
  /\ Decoded(1)
  /\ found.err = "nil"
  /\ found.id \in DOMAIN TracksOf(lib[1], mem)
  /\ Itoa(found.t.TrackID) # found.id
  /\ DOMAIN TracksOf(lib[1], mem) # Keys

C2_WitnessNotFound ==
  /\ Decoded(1)
  /\ found.err = "no track with id"
  /\ TracksOf(lib[1], mem) # EmptyMap

(***************************************************************************)
(* C3.  Right after AllTracks returns, the slice has as many elements as   *)
(* Tracks has entries and holds, as a multiset, exactly the values of the  *)
(* map: each value once per key holding it.                                *)
(***************************************************************************)
C3_AllTracksIsBagOfValues ==
  (Decoded(1) /\ out.arr # 0 /\ out.fresh) =>
    /\ out.len = Cardinality(DOMAIN TracksOf(lib[1], mem))
    /\ SameBag(OutElems, TracksOf(lib[1], mem))

\* AllTracks has returned two equal tracks held under two keys.
C3_Witness ==
  /\ Decoded(1) /\ out.arr # 0 /\ out.fresh
  /\ out.len = 2
  /\ OutElems[1] = OutElems[2]

(***************************************************************************)
(* C4.  Once the caller has mutated the slice AllTracks returned (an       *)
(* element overwritten, a field of an element changed, an element          *)
(* appended, the slice truncated), the Library is still what was decoded:  *)
(* Tracks and every Track in it are unchanged, and a later AllTracks or    *)
(* Track(k) returns what it returns on the Library as decoded.             *)
(***************************************************************************)
C4_AllTracksIsSnapshot ==
  (Decoded(1) /\ nmut > 0) =>
    LET asDecoded == Alone(1).view
    IN  /\ View(lib[1], mem) = asDecoded
        /\ (out.arr # 0 /\ out.fresh) => SameBag(OutElems, asDecoded.Tracks)
        /\ (found.err # "none") =>
             IF found.id \in DOMAIN asDecoded.Tracks
             THEN found.err = "nil" /\ found.t = asDecoded.Tracks[found.id]
             ELSE found.err = "no track with id"

\* The slice was mutated, and AllTracks was called again on a Library that
\* holds tracks.
C4_Witness ==
  /\ Decoded(1) /\ nmut = MaxMut
  /\ out.arr # 0 /\ out.fresh /\ out.len > 0

(***************************************************************************)
(* C7, as claimed.  The Library decoded from a well-formed document has    *)
(* exactly one Tracks entry per track block of the document, each stored   *)
(* under the key equal to the track's own TrackID.                         *)
(***************************************************************************)
C7_OneEntryPerBlockKeyedByTrackID ==
  Decoded(1) =>
    LET tracks == TracksOf(lib[1], mem)
    IN  /\ Cardinality(DOMAIN tracks) = Len(TrackBlocks(rd[1].data))
        /\ \A k \in DOMAIN tracks : Itoa(tracks[k].TrackID) = k

(***************************************************************************)
(* C7, amended.  The Library decoded from a well-formed document has       *)
(* exactly one Tracks entry per distinct key of the document's Tracks      *)
(* dictionary, stored under that key, and the entry's TrackID is the       *)
(* "Track ID" of a block the document holds under that key (zero when the  *)
(* block gives none).  When the keys of the blocks are distinct and each   *)
(* is the decimal form of its block's "Track ID", that is one entry per    *)
(* block, keyed by the track's TrackID.                                    *)
(***************************************************************************)
C7_OneEntryPerDocumentKey ==
  Decoded(1) =>
    LET tracks == TracksOf(lib[1], mem)
        blocks == TrackBlocks(rd[1].data)
        proper == /\ \A i, j \in 1..Len(blocks) :
                       i # j => blocks[i].key # blocks[j].key
                  /\ \A i \in 1..Len(blocks) :
                       Itoa(BlockID(blocks[i])) = blocks[i].key
    IN  /\ DOMAIN tracks = { blocks[i].key : i \in 1..Len(blocks) }
        /\ \A k \in DOMAIN tracks :
             \E i \in 1..Len(blocks) :
               blocks[i].key = k /\ BlockID(blocks[i]) = tracks[k].TrackID
        /\ proper =>
             /\ Cardinality(DOMAIN tracks) = Len(blocks)
             /\ \A k \in DOMAIN tracks : Itoa(tracks[k].TrackID) = k

\* A document was decoded that holds two blocks under one key, and a track
\* under a key that is not its TrackID.
C7_Witness ==
  /\ Decoded(1)
  /\ LET blocks == TrackBlocks(rd[1].data)
     IN  /\ Len(blocks) = 2
         /\ blocks[1].key = blocks[2].key
  /\ \E k \in DOMAIN TracksOf(lib[1], mem) :
       Itoa(TracksOf(lib[1], mem)[k].TrackID) # k

C7_WitnessProper ==
  /\ Decoded(1)
  /\ LET blocks == TrackBlocks(rd[1].data)
     IN  /\ Len(blocks) = 2
         /\ blocks[1].key # blocks[2].key
         /\ \A i \in 1..2 : Itoa(BlockID(blocks[i])) = blocks[i].key

(***************************************************************************)
(* C9.  Decoding a well-formed document with zero tracks and zero          *)
(* playlists succeeds; Tracks has no entries and Playlists has length      *)
(* zero; AllTracks returns an empty slice and Track(k) fails for every k.  *)
(***************************************************************************)
\* The reader of call p never fails and its document is complete, has no
\* type mismatch, no track block and no playlist.
EmptyLibraryRead(p) ==
  LET data == rd[p].data
  IN  /\ rd[p].failAt > Len(data)
      /\ Closed(data)
      /\ \A i \in 1..Len(data) :
           /\ data[i].key = "Major Version" => data[i].val.type = "integer"
           /\ data[i].key = "Tracks" => data[i].val.val = <<>>
           /\ data[i].key = "Playlists" => data[i].val.val = <<>>

C9_EmptyDocumentDecodes ==
  (Done(1) /\ EmptyLibraryRead(1)) =>
    /\ err[1] = "nil"
    /\ DOMAIN TracksOf(lib[1], mem) = {}
    /\ lib[1].Playlists.len = 0
    /\ PlaylistsOf(lib[1], mem) = <<>>
    /\ (out.arr # 0 /\ out.fresh) => out.len = 0 /\ OutElems = <<>>
    /\ (found.err # "none") => found.err = "no track with id"

\* Such a document was decoded, AllTracks and Track were called.
C9_Witness ==
  /\ Done(1) /\ EmptyLibraryRead(1)
  /\ out.arr # 0 /\ out.fresh
  /\ found.err = "no track with id"

(***************************************************************************)
(* Calls of ReadFromXML side by side.  Each call has its own reader; a     *)
(* call takes one step per Read of ReadAll and one for the rest.  Once a   *)
(* call has returned, its caller may mutate the Library it got.            *)
(***************************************************************************)
\* The documents the concurrent calls read: two that decode, one with a type
\* mismatch in its track block, one that is truncated.
ConcShapes ==
  { [ ver |-> "ok", hasTracks |-> TRUE,
      blocks |-> << [ key |-> <<"1">>, id |-> 1, nameOk |-> TRUE ] >>,
      pl |-> "one", closed |-> TRUE ],
    [ ver |-> "ok", hasTracks |-> TRUE,
      blocks |-> << [ key |-> <<"2">>, id |-> 2, nameOk |-> TRUE ] >>,
      pl |-> "absent", closed |-> TRUE ],
    [ ver |-> "ok", hasTracks |-> TRUE,
      blocks |-> << [ key |-> <<"1">>, id |-> 1, nameOk |-> FALSE ] >>,
      pl |-> "absent", closed |-> TRUE ],
    [ ver |-> "ok", hasTracks |-> FALSE, blocks |-> <<>>,
      pl |-> "empty", closed |-> FALSE ] }

InitConc ==
  /\ \E shape \in [ Procs -> ConcShapes ] :
       \E fails \in [ Procs -> BOOLEAN ] :
         rd = [ p \in Procs |->
                  Reader(MkDoc(shape[p]),
                         IF fails[p] THEN 1 ELSE Len(MkDoc(shape[p])) + 1) ]
  /\ mem = <<>>
  /\ buf = [ p \in Procs |-> <<>> ]
  /\ lib = [ p \in Procs |-> ZeroLibrary ]
  /\ err = [ p \in Procs |-> "nil" ]
  /\ pc = [ p \in Procs |-> "ReadAll" ]
  /\ decoded = [ p \in Procs |-> <<>> ]
  /\ touched = [ p \in Procs |-> FALSE ]
  /\ found = NoFound
  /\ out = NoSlice
  /\ nmut = 0
  /\ AccIdle

\* One Read of ReadAll's loop.
ReadAllStep(p) ==
  /\ pc[p] = "ReadAll"
  /\ LET x == Read(rd[p])
     IN  /\ rd' = [ rd EXCEPT ![p] = x.r ]
         /\ buf' = [ buf EXCEPT ![p] = @ \o x.got ]
         /\ err' = [ err EXCEPT ![p] = IF x.res = "error" THEN "read" ELSE "nil" ]
         /\ pc' = [ pc EXCEPT ![p] = IF x.res = "ok" THEN "ReadAll" ELSE "ReadAllDone" ]
  /\ UNCHANGED << mem, lib, decoded, touched, found, out, nmut, accVars >>

\* A mutant of AfterReadAll: the error of ReadAll is not tested.
AfterReadAllIgnoringErr(p) ==
  /\ pc[p] = "ReadAllDone"
  /\ DecodeAndReturn(p, rd[p], buf[p], err[p], lib[p])
  /\ pc' = [ pc EXCEPT ![p] = "done" ]
  /\ UNCHANGED << rd, buf, touched, found, out, nmut, accVars >>

\* A mutant of AfterReadAll: l is one variable shared by the calls, so a call
\* decodes into what an earlier call left there.
AfterReadAllSharedResult(p) ==
  /\ pc[p] = "ReadAllDone"
  /\ Finish(p, rd[p], buf[p], err[p], lib[CHOOSE q \in Procs : q # p])
  /\ pc' = [ pc EXCEPT ![p] = "done" ]
  /\ UNCHANGED << rd, buf, touched, found, out, nmut, accVars >>

\* if err != nil { return }; err = plist.Unmarshal(b, &l); return
AfterReadAll(p) ==
  /\ pc[p] = "ReadAllDone"
  /\ Finish(p, rd[p], buf[p], err[p], lib[p])
  /\ pc' = [ pc EXCEPT ![p] = "done" ]
  /\ UNCHANGED << rd, buf, touched, found, out, nmut, accVars >>

\* The caller of p stores a Track in the Tracks map it got.
MutateTracks(p) ==
  /\ Done(p) /\ ~touched[p] /\ lib[p].Tracks # 0
  /\ mem' = [ mem EXCEPT ![lib[p].Tracks] = MapPut(@, <<"1">>, MutTrack) ]
  /\ touched' = [ touched EXCEPT ![p] = TRUE ]
  /\ UNCHANGED << rd, buf, lib, err, pc, decoded, found, out, nmut, accVars >>

\* The caller of p renames the first playlist of the Playlists slice it got.
MutatePlaylists(p) ==
  /\ Done(p) /\ ~touched[p] /\ lib[p].Playlists.len > 0
  /\ mem' = [ mem EXCEPT ![lib[p].Playlists.arr][1].Name = <<"Z">> ]
  /\ touched' = [ touched EXCEPT ![p] = TRUE ]
  /\ UNCHANGED << rd, buf, lib, err, pc, decoded, found, out, nmut, accVars >>

NextConc ==
  \E p \in Procs :
    \/ ReadAllStep(p)
    \/ AfterReadAll(p)
    \/ MutateTracks(p)
    \/ MutatePlaylists(p)

SpecConc == InitConc /\ [][NextConc]_vars

\* The heap objects a Library points to.
Reach(l, m) ==
  ({ l.Tracks, l.Playlists.arr } \ { 0 })
  \cup (IF l.Playlists.arr = 0 THEN {}
        ELSE { m[l.Playlists.arr][i].PlaylistItems.arr :
                 i \in 1..Len(m[l.Playlists.arr]) } \ { 0 })

(***************************************************************************)
(* C8.  The decoder is invoked only after the stream has been read to its  *)
(* end without error; when reading fails, ReadFromXML returns the read     *)
(* error and the decoder is never invoked.                                 *)
(***************************************************************************)
C8_ReadAllBeforeDecode ==
  \A p \in Procs :
    /\ pc[p] = "ReadAll" => decoded[p] = <<>>
    /\ decoded[p] # <<>> =>
         /\ decoded[p][1].readErr = "nil"
         /\ decoded[p][1].r.pos = Len(rd[p].data)
         /\ Len(buf[p]) = Len(rd[p].data)
         /\ \A i \in 1..Len(buf[p]) : buf[p][i].key = rd[p].data[i].key
    /\ (Done(p) /\ rd[p].failAt <= Len(rd[p].data)) =>
         /\ err[p] = "read"
         /\ decoded[p] = <<>>

\* One call decoded a document of several tokens; another returned after its
\* reader failed in the middle of the stream.
C8_Witness ==
  \E p, q \in Procs :
    /\ Done(p) /\ decoded[p] # <<>> /\ Len(buf[p]) > 2
    /\ Done(q) /\ err[q] = "read" /\ buf[q] # <<>> /\ decoded[q] = <<>>

(***************************************************************************)
(* C10.  Calls of ReadFromXML on readers of their own share nothing: in    *)
(* every interleaving each call returns the Library and the error it       *)
(* returns when run alone, the Libraries returned point to no common map   *)
(* or array, and mutating the Tracks map or the Playlists slice of one     *)
(* leaves every other as it was returned.                                  *)
(***************************************************************************)
C10_CallsAreIndependent ==
  \A p \in Procs :
    Done(p) =>
      /\ err[p] = Alone(p).err
      /\ ~touched[p] => View(lib[p], mem) = Alone(p).view
      /\ \A q \in Procs \ { p } :
           Done(q) => Reach(lib[p], mem) \cap Reach(lib[q], mem) = {}

\* Both calls returned a Library with tracks, call 2 decoded first, and the
\* caller of 1 has mutated its Library.
C10_Witness ==
  /\ Done(1) /\ Done(2)
  /\ lib[1].Tracks # 0 /\ lib[2].Tracks # 0
  /\ lib[2].Tracks < lib[1].Tracks
  /\ touched[1] /\ ~touched[2]

(***************************************************************************)
(* Calls of the by-name accessors on a Track.  The Name of the Track is    *)
(* any text put together from at most MaxPieces of Pieces; its other       *)
(* fields are fixed.  An accessor reads nothing but its receiver and its   *)
(* argument, so a behaviour makes one call.                                *)
(***************************************************************************)
Pieces ==
  { <<"&", "a", "m", "p", ";">>, <<"&">>, <<"R">>, <<"a", "m", "p", ";">>,
    <<"&", "l", "t">> }

RECURSIVE TextsUpTo(_)
TextsUpTo(n) ==
  IF n = 0 THEN { <<>> }
  ELSE TextsUpTo(n - 1) \cup { s \o x : s \in TextsUpTo(n - 1), x \in Pieces }

Texts == TextsUpTo(MaxPieces)

\* The names the accessors are called with: every field identifier of Track,
\* and names that are no field identifier (document keys among them).
Names == TrackFieldNames \cup { "Track Number", "Track ID", "name", "" }

InitAcc ==
  /\ LibInit
  /\ \E s \in Texts :
       t = [ ZeroTrack EXCEPT !.Name = s,
                              !.Artist = <<"R", "&", "l", "t", ";", "R">>,
                              !.TrackID = 7,
                              !.Compilation = TRUE ]
  /\ recv = ZeroTrack
  /\ call = NoCall
  /\ ret = Panic("")

GetStringCall ==
  /\ call.fn = "none"
  /\ \E n \in Names :
       /\ call' = [ fn |-> "GetString", name |-> n ]
       /\ ret' = GetString(t, n)
  /\ recv' = t
  /\ UNCHANGED << t, libVars >>

GetIntCall ==
  /\ call.fn = "none"
  /\ \E n \in Names :
       /\ call' = [ fn |-> "GetInt", name |-> n ]
       /\ ret' = GetInt(t, n)
  /\ recv' = t
  /\ UNCHANGED << t, libVars >>

GetBoolCall ==
  /\ call.fn = "none"
  /\ \E n \in Names :
       /\ call' = [ fn |-> "GetBool", name |-> n ]
       /\ ret' = GetBool(t, n)
  /\ recv' = t
  /\ UNCHANGED << t, libVars >>

NextAcc == GetStringCall \/ GetIntCall \/ GetBoolCall

SpecAcc == InitAcc /\ [][NextAcc]_vars

\* html.EscapeString: the text whose unescaping a text is.
RECURSIVE EscapeString(_)
EscapeString(s) ==
  IF s = <<>> THEN <<>>
  ELSE (CASE Head(s) = "&" -> <<"&", "a", "m", "p", ";">>
          [] Head(s) = "<" -> <<"&", "l", "t", ";">>
          [] Head(s) = ">" -> <<"&", "g", "t", ";">>
          [] OTHER         -> << Head(s) >>) \o EscapeString(Tail(s))

Escaped == [ u \in Texts |-> EscapeString(u) ]

\* The kind of field each accessor is for.
KindFor(fn) ==
  CASE fn = "GetString" -> "string"
    [] fn = "GetInt"    -> "int"
    [] fn = "GetBool"   -> "bool"

(***************************************************************************)
(* C5.  GetString on a text field returns the stored value with its HTML   *)
(* entities decoded: a value without "&" comes back unchanged, the escaped *)
(* form of a text comes back as that text ("R&amp;R" as "R&R"), and the    *)
(* call does not modify the Track.                                         *)
(***************************************************************************)
C5_GetStringUnescapes ==
  (/\ call.fn = "GetString"
   /\ call.name \in TrackFieldNames
   /\ TrackKind[call.name] = "string") =>
    /\ ~ret.panicked
    /\ t = recv
    /\ "&" \notin Range(t[call.name]) => ret.val = t[call.name]
    /\ \A u \in Texts : Escaped[u] = t[call.name] => ret.val = u
    /\ t[call.name] = <<"R", "&", "a", "m", "p", ";", "R">>
         => ret.val = <<"R", "&", "R">>
    /\ t[call.name] = <<"R", "&", "l", "t", ";", "R">>
         => ret.val = <<"R", "<", "R">>

\* GetString("Name") was called on a Track named "R&amp;R".
C5_Witness ==
  /\ call = [ fn |-> "GetString", name |-> "Name" ]
  /\ t.Name = <<"R", "&", "a", "m", "p", ";", "R">>
  /\ ~ret.panicked
  /\ ret.val = <<"R", "&", "R">>
  /\ t = recv

(***************************************************************************)
(* C6.  An accessor panics exactly when the name is no field identifier of *)
(* Track (a document key such as "Track Number" is none) or the field's    *)
(* declared type is not the accessor's (every accessor on a time.Time      *)
(* field); otherwise it returns the field's value.                         *)
(***************************************************************************)
C6_PanicsExactlyOnMismatch ==
  (call.fn # "none") =>
    /\ ret.panicked <=>
         \/ call.name \notin TrackFieldNames
         \/ TrackKind[call.name] # KindFor(call.fn)
    /\ call.name \in { "Track Number", "Track ID", "name", "" } => ret.panicked
    /\ call.name \in { "DateAdded", "DateModified", "PlayDateUTC", "SkipDate",
                       "ReleaseDate" } => ret.panicked
    /\ (call.fn = "GetInt" /\ call.name = "Name") => ret.panicked
    /\ (call.fn = "GetInt" /\ call.name = "TrackNumber") => ~ret.panicked
    /\ (~ret.panicked /\ call.fn # "GetString") => ret.val = t[call.name]
    /\ (~ret.panicked /\ call.fn = "GetString") =>
         ret.val = UnescapeString(t[call.name])

\* GetInt was called on a text field and panicked.
C6_Witness ==
  /\ call = [ fn |-> "GetInt", name |-> "Name" ]
  /\ ret.panicked
  /\ ret.msg = "field is not an int"

C6_WitnessValue ==
  /\ call = [ fn |-> "GetBool", name |-> "Compilation" ]
  /\ ~ret.panicked
  /\ ret.val = TRUE

====
